---- MODULE Spec2Model ----
(***************************************************************************)
(* Model of server.js: an Express server that connects to MongoDB at       *)
(* start-up, renders a dashboard (GET /) from the "records" and "sensors"  *)
(* collections and ingests sensor readings (POST /api/sensor).             *)
(*                                                                         *)
(* Strings are sequences of one-character strings, so that prefix tests,   *)
(* regular-expression matching, numeric parsing and the binary collation   *)
(* of $sort are computed rather than assumed.                              *)
(***************************************************************************)
EXTENDS Integers, Sequences, FiniteSets, TLC

VARIABLES
    uri,            \* process.env.MONGO_URI (Absent when the variable is unset)
    proc,           \* position of the process: start, loaded, connecting, connected, listening, exited
    db,             \* the module-level `let db`
    connectCalls,   \* number of calls of connectDB()
    clientConnects, \* number of calls of client.connect()
    records,        \* the "records" collection (a set of documents)
    sensors,        \* the "sensors" collection, in insertion order
    now,            \* the server's clock (new Date())
    reqs,           \* the requests received, in arrival order, with each handler's locals
    out             \* the response the last step wrote, if any: its request, its status and, for 200, the view

vars == <<uri, proc, db, connectCalls, clientConnects, records, sensors, now, reqs, out>>

----------------------------------------------------------------------------
(* Bounds of the model *)

MaxReqs == 2
MaxDashReqs == 1
MaxTime == 2
MaxRecords == 3
MaxSensors == 6
MaxConnectCalls == 2

----------------------------------------------------------------------------
(* Strings *)

\* The UTF-16 code unit of a character: the order of MongoDB's default
\* (binary) collation.
Code(c) ==
    CASE c = "(" -> 40
      [] c = "." -> 46
      [] c = "2" -> 50
      [] c = "5" -> 53
      [] c = "A" -> 65
      [] c = "B" -> 66
      [] c = "a" -> 97
      [] c = "b" -> 98

Lower(c) ==
    CASE c = "A" -> "a"
      [] c = "B" -> "b"
      [] OTHER -> c

RECURSIVE StrLess(_, _)
StrLess(s, t) ==
    IF t = <<>> THEN FALSE
    ELSE IF s = <<>> THEN TRUE
    ELSE IF Code(Head(s)) # Code(Head(t)) THEN Code(Head(s)) < Code(Head(t))
    ELSE StrLess(Tail(s), Tail(t))

StartsWith(s, p) ==
    /\ Len(p) <= Len(s)
    /\ SubSeq(s, 1, Len(p)) = p

----------------------------------------------------------------------------
(* JavaScript values of a JSON request body, and Number() *)

Undefined == [s |-> <<>>, t |-> "undefined", n |-> 0]
Null == [s |-> <<>>, t |-> "null", n |-> 0]
NaN == [s |-> <<>>, t |-> "NaN", n |-> 0]
Num(k) == [s |-> <<>>, t |-> "number", n |-> k]
Str(x) == [s |-> x, t |-> "string", n |-> 0]

IsDigit(c) == c \in {"2", "5"}

DigitVal(c) == IF c = "2" THEN 2 ELSE 5

RECURSIVE Decimal(_, _)
Decimal(s, acc) ==
    IF s = <<>> THEN acc
    ELSE Decimal(Tail(s), acc * 10 + DigitVal(Head(s)))

\* Number(v) || 0: a string that is no number becomes 0.
ToNumberOrZero(v) ==
    CASE v.t = "undefined" -> Num(0)
      [] v.t = "null" -> Num(0)
      [] v.t = "number" -> v
      [] v.t = "NaN" -> Num(0)
      [] v.t = "string" ->
            IF v.s # <<>> /\ \A i \in 1..Len(v.s) : IsDigit(v.s[i]) THEN Num(Decimal(v.s, 0))
            ELSE Num(0)

\* Number(v): null is 0, the empty string is 0, a string of digits is its
\* decimal value, any other string is NaN.
ToNumber(v) ==
    CASE v.t = "undefined" -> NaN
      [] v.t = "null" -> Num(0)
      [] v.t = "number" -> v
      [] v.t = "NaN" -> NaN
      [] v.t = "string" ->
            IF v.s = <<>> THEN Num(0)
            ELSE IF \A i \in 1..Len(v.s) : IsDigit(v.s[i]) THEN Num(Decimal(v.s, 0))
            ELSE NaN

----------------------------------------------------------------------------
(* Start-up *)

Absent == <<"<unset>">>

NoView == [regions |-> <<>>, sensorData |-> <<>>, query |-> <<>>, locale |-> ""]
NoResponse == [to |-> 0, status |-> 0, view |-> NoView]

DbUnset == "undefined"
DbHandle == "weatherdb"

MongodbScheme == <<"m", "o", "n", "g", "o", "d", "b">>

ValidUri == MongodbScheme \o <<":", "/", "/", "h">>

Uris ==
    { Absent,
      <<>>,
      <<"h", "t", "t", "p", ":", "/", "/", "h">>,
      MongodbScheme \o <<"x">>,
      ValidUri }

\* The negation of the test of line 14.
UriAccepted(u) ==
    /\ u # Absent
    /\ u # <<>>
    /\ StartsWith(u, MongodbScheme)

\* new MongoClient(uri) parses the connection string and throws unless it
\* starts with mongodb:// or mongodb+srv://.
ClientConstructs(u) ==
    \/ StartsWith(u, MongodbScheme \o <<":", "/", "/">>)
    \/ StartsWith(u, MongodbScheme \o <<"+", "s", "r", "v", ":", "/", "/">>)

\* Top-level code of the module up to the call of connectDB(): the check of
\* MONGO_URI exits the process; an exception of the MongoClient constructor
\* is uncaught and ends it too.
LoadModule ==
    /\ proc = "start"
    /\ proc' = IF UriAccepted(uri) /\ ClientConstructs(uri) THEN "loaded" ELSE "exited"
    /\ UNCHANGED <<uri, db, connectCalls, clientConnects, records, sensors, now, reqs>>
    /\ out' = NoResponse

\* connectDB() up to its await: returns at once when db is set.
ConnectDB ==
    /\ proc \in {"loaded", "listening"}
    /\ connectCalls < MaxConnectCalls
    /\ connectCalls' = connectCalls + 1
    /\ IF db # DbUnset
       THEN UNCHANGED <<proc, clientConnects>>
       ELSE /\ proc' = "connecting"
            /\ clientConnects' = clientConnects + 1
    /\ UNCHANGED <<uri, db, records, sensors, now, reqs>>
    /\ out' = NoResponse

\* client.connect() settles: db is assigned, or the catch block exits.
ConnectSettled(ok) ==
    /\ proc = "connecting"
    /\ IF ok
       THEN /\ db' = DbHandle
            /\ proc' = "connected"
       ELSE /\ proc' = "exited"
            /\ UNCHANGED db
    /\ UNCHANGED <<uri, connectCalls, clientConnects, records, sensors, now, reqs>>
    /\ out' = NoResponse

\* connectDB(); app.listen(...): listening without waiting for the connection.
ListenAtOnce ==
    /\ proc \in {"connecting", "connected"}
    /\ proc' = "listening"
    /\ UNCHANGED <<uri, db, connectCalls, clientConnects, records, sensors, now, reqs>>
    /\ out' = NoResponse

\* The then-callback of connectDB(): app.listen.
Listen ==
    /\ proc = "connected"
    /\ proc' = "listening"
    /\ UNCHANGED <<uri, db, connectCalls, clientConnects, records, sensors, now, reqs>>
    /\ out' = NoResponse

\* The clock advances.
Tick ==
    /\ now < MaxTime
    /\ now' = now + 1
    /\ UNCHANGED <<uri, proc, db, connectCalls, clientConnects, records, sensors, reqs>>
    /\ out' = NoResponse

----------------------------------------------------------------------------
(* The dashboard's aggregation pipeline *)

Limit == 5

Cities == {<<"B">>, <<"a">>, <<"a", "b">>}
Regions == {<<"B">>, <<"a">>}

\* A stored timestamp is <<t>>; <<>> is a document without one.
RecordTimestamps == {<<>>, <<1>>, <<2>>}

WeatherRecords ==
    [city : Cities, region : Regions, timestamp : RecordTimestamps \ {<<>>}]
        \cup {[city |-> <<"a">>, region |-> <<"B">>, timestamp |-> <<>>]}

\* req.query.q as the client sends it.
Qs == {Absent, <<>>, <<"A">>, <<"b">>, <<".">>, <<"(">>, <<"a", "B">>}

\* const searchQuery = req.query.q || ''
SearchQuery(q) == IF q = Absent THEN <<>> ELSE q

\* The server compiles $regex; an unbalanced parenthesis is rejected.
RegexValid(q) == \A i \in 1..Len(q) : q[i] # "("

\* { $regex: q, $options: 'i' }: an unanchored match in which "." stands for
\* any character and every other character of the alphabet for itself.
RegexMatches(q, s) ==
    \E i \in 0..(Len(s) - Len(q)) :
        \A j \in 1..Len(q) : q[j] = "." \/ Lower(q[j]) = Lower(s[i + j])

\* const matchStage = {}; if (searchQuery) matchStage.city = {...}; $match
MatchStage(M, q) ==
    IF q = <<>> THEN M ELSE {d \in M : RegexMatches(q, d.city)}

\* The sort key of a timestamp: a missing field sorts below every date.
TsKey(ts) == IF ts = <<>> THEN 0 ELSE ts[1]

\* { $sort: { timestamp: 1 } } before the $group: each city's oldest document.
OldestPerCity(M) ==
    LET cities == {d.city : d \in M}
        bottom(c) == {d \in M : /\ d.city = c
                                /\ \A e \in M : e.city = c => TsKey(d.timestamp) <= TsKey(e.timestamp)}
    IN  {f \in [cities -> M] : \A c \in cities : f[c] \in bottom(c)}

\* { $sort: { timestamp: -1 } }, { $group: { _id: "$city", doc: { $first } } }:
\* each city's first document in descending timestamp order. Documents with
\* equal timestamps come in any order, so each choice is a possible result.
LatestPerCity(M) ==
    LET cities == {d.city : d \in M}
        top(c) == {d \in M : /\ d.city = c
                             /\ \A e \in M : e.city = c => TsKey(e.timestamp) <= TsKey(d.timestamp)}
    IN  {f \in [cities -> M] : \A c \in cities : f[c] \in top(c)}

RECURSIVE SortByCity(_)
\* { $sort: { city: 1 } } of documents with distinct cities.
SortByCity(S) ==
    IF S = {} THEN <<>>
    ELSE LET m == CHOOSE d \in S : \A e \in S : e = d \/ StrLess(d.city, e.city)
         IN  <<m>> \o SortByCity(S \ {m})

RECURSIVE SortByIdDescending(_)
\* { $sort: { _id: -1 } }
SortByIdDescending(S) ==
    IF S = {} THEN <<>>
    ELSE LET m == CHOOSE g \in S : \A h \in S : h = g \/ StrLess(h._id, g._id)
         IN  <<m>> \o SortByIdDescending(S \ {m})

RECURSIVE SortById(_)
\* { $sort: { _id: 1 } } of groups with distinct _id.
SortById(S) ==
    IF S = {} THEN <<>>
    ELSE LET m == CHOOSE g \in S : \A h \in S : h = g \/ StrLess(g._id, h._id)
         IN  <<m>> \o SortById(S \ {m})

\* { $group: { _id: "$region", provinces: { $push: "$$ROOT" } } }: $push keeps
\* the order of the incoming documents.
GroupByRegion(byCity) ==
    LET ids == {byCity[i].region : i \in 1..Len(byCity)}
    IN  {[_id |-> g, provinces |-> SelectSeq(byCity, LAMBDA d : d.region = g)] : g \in ids}

\* The pipeline from $replaceRoot on, for one result of the first $group.
Pipeline(docs) == SortById(GroupByRegion(SortByCity({docs[c] : c \in DOMAIN docs})))

\* formatInTimeZone(ts, 'Asia/Bangkok', ...) throws a RangeError on a
\* missing timestamp.
FormatThrows(ts) == ts = <<>>

FormatInTimeZone(ts) == <<"Asia/Bangkok", ts[1]>>

RegionsThrow(regions) ==
    \E i \in 1..Len(regions) : \E j \in 1..Len(regions[i].provinces) :
        FormatThrows(regions[i].provinces[j].timestamp)

\* regions.forEach(region => region.provinces.forEach(...))
FormatProvince(d) ==
    [city |-> d.city, region |-> d.region, timestamp |-> d.timestamp,
     formattedTimestamp |-> FormatInTimeZone(d.timestamp)]

FormatRegions(regions) ==
    [i \in 1..Len(regions) |->
        [_id |-> regions[i]._id,
         provinces |-> [j \in 1..Len(regions[i].provinces) |->
                            FormatProvince(regions[i].provinces[j])]]]

----------------------------------------------------------------------------
(* The sensor query *)

RECURSIVE SortedDesc(_, _)
\* The orders in which .sort({ timestamp: -1 }) can return the readings at
\* the positions I of "sensors", cut after n: equal timestamps come in any order.
SortedDesc(I, n) ==
    IF I = {} \/ n = 0 THEN {<<>>}
    ELSE LET top == {i \in I : \A k \in I : TsKey(sensors[k].timestamp) <= TsKey(sensors[i].timestamp)}
         IN  UNION {{<<i>> \o rest : rest \in SortedDesc(I \ {i}, n - 1)} : i \in top}

RECURSIVE SortedAsc(_, _)
SortedAsc(I, n) ==
    IF I = {} \/ n = 0 THEN {<<>>}
    ELSE LET bottom == {i \in I : \A k \in I : TsKey(sensors[i].timestamp) <= TsKey(sensors[k].timestamp)}
         IN  UNION {{<<i>> \o rest : rest \in SortedAsc(I \ {i}, n - 1)} : i \in bottom}

\* find({}).sort({ timestamp: 1 }).limit(5): the five oldest readings.
FindOldest == SortedAsc(DOMAIN sensors, Limit)

\* find({}).sort({ timestamp: -1 }).limit(5).toArray(), as positions.
FindRecent == SortedDesc(DOMAIN sensors, Limit)

FormatSensor(d) ==
    [timestamp |-> d.timestamp, formattedTimestamp |-> FormatInTimeZone(d.timestamp),
     temperature |-> d.temperature, humidity |-> d.humidity]

----------------------------------------------------------------------------
(* Requests *)

NoBody == [temperature |-> Undefined, humidity |-> Undefined]
NoDoc == [timestamp |-> <<>>, temperature |-> NaN, humidity |-> NaN]

\* A request as it arrives: what the client sent, and the handler's locals
\* and response, still empty.
Request(kind, query, body) ==
    [regions |-> <<>>, query |-> query, status |-> 0, q |-> <<>>, kind |-> kind,
     body |-> body, pc |-> "done", doc |-> NoDoc, inserts |-> 0, responses |-> 0,
     rendered |-> FALSE, failed |-> "none"]

\* res.status(code).send(...) or .json(...): the handler ends.
Respond(r, code) ==
    [r EXCEPT !.pc = "done", !.status = code, !.responses = @ + 1,
              !.q = <<>>, !.doc = NoDoc, !.regions = <<>>]

\* catch (err) { res.status(500)... }
Caught(r, step) == [Respond(r, 500) EXCEPT !.failed = step]

\* res.render('index', { regions, sensorData, query: searchQuery, locale })
Render(r) == [Respond(r, 200) EXCEPT !.rendered = TRUE]

\* GET / up to `await collection.aggregate(pipeline).toArray()`. With db
\* unset, db.collection throws and the catch block answers.
GetStart(query) ==
    /\ proc = "listening"
    /\ Len(reqs) < MaxReqs
    /\ LET r == Request("GET", query, NoBody)
       IN  IF db = DbUnset
           THEN /\ reqs' = Append(reqs, Caught(r, "db"))
                /\ out' = [to |-> Len(reqs) + 1, status |-> 500, view |-> NoView]
           ELSE /\ reqs' = Append(reqs, [r EXCEPT !.pc = "aggregate", !.q = SearchQuery(query)])
                /\ out' = NoResponse
    /\ UNCHANGED <<uri, proc, db, connectCalls, clientConnects, records, sensors, now>>

\* The aggregation settles, with a formatting that skips a province whose
\* timestamp cannot be formatted instead of throwing.
GetAggregateSettledLenient(i, ok) ==
    /\ i \in DOMAIN reqs
    /\ reqs[i].pc = "aggregate"
    /\ IF ~ok \/ ~RegexValid(reqs[i].q)
       THEN /\ reqs' = [reqs EXCEPT ![i] = Caught(@, "aggregate")]
            /\ out' = [to |-> i, status |-> 500, view |-> NoView]
       ELSE \E docs \in LatestPerCity(MatchStage(records, reqs[i].q)) :
                /\ reqs' = [reqs EXCEPT ![i] = [@ EXCEPT !.pc = "find", !.regions = Pipeline(docs)]]
                /\ out' = NoResponse
    /\ UNCHANGED <<uri, proc, db, connectCalls, clientConnects, records, sensors, now>>

\* The aggregation settles. On success the provinces' timestamps are
\* formatted and the sensor query is issued; a failed query, a rejected
\* regular expression or a timestamp that cannot be formatted ends in catch.
GetAggregateSettled(i, ok) ==
    /\ i \in DOMAIN reqs
    /\ reqs[i].pc = "aggregate"
    /\ IF ~ok \/ ~RegexValid(reqs[i].q)
       THEN /\ reqs' = [reqs EXCEPT ![i] = Caught(@, "aggregate")]
            /\ out' = [to |-> i, status |-> 500, view |-> NoView]
       ELSE \E docs \in LatestPerCity(MatchStage(records, reqs[i].q)) :
                LET regions == Pipeline(docs)
                IN  IF RegionsThrow(regions)
                    THEN /\ reqs' = [reqs EXCEPT ![i] = Caught(@, "format")]
                         /\ out' = [to |-> i, status |-> 500, view |-> NoView]
                    ELSE /\ reqs' = [reqs EXCEPT ![i] =
                                [@ EXCEPT !.pc = "find", !.regions = FormatRegions(regions)]]
                         /\ out' = NoResponse
    /\ UNCHANGED <<uri, proc, db, connectCalls, clientConnects, records, sensors, now>>

\* The sensor query settles. On success the readings' timestamps are
\* formatted and the view is rendered.
GetFindSettled(i, ok) ==
    /\ i \in DOMAIN reqs
    /\ reqs[i].pc = "find"
    /\ IF ~ok
       THEN /\ reqs' = [reqs EXCEPT ![i] = Caught(@, "find")]
            /\ out' = [to |-> i, status |-> 500, view |-> NoView]
       ELSE \E found \in FindRecent :
                IF \E k \in 1..Len(found) : FormatThrows(sensors[found[k]].timestamp)
                THEN /\ reqs' = [reqs EXCEPT ![i] = Caught(@, "format")]
                     /\ out' = [to |-> i, status |-> 500, view |-> NoView]
                ELSE /\ reqs' = [reqs EXCEPT ![i] = Render(@)]
                     /\ out' = [to |-> i, status |-> 200,
                                view |-> [regions |-> reqs[i].regions,
                                          sensorData |-> [k \in 1..Len(found) |->
                                                             FormatSensor(sensors[found[k]])],
                                          query |-> reqs[i].q,
                                          locale |-> "th-TH"]]
    /\ UNCHANGED <<uri, proc, db, connectCalls, clientConnects, records, sensors, now>>

\* POST /api/sensor up to `await sensorCollection.insertOne(newSensorRecord)`.
PostStart(body) ==
    /\ proc = "listening"
    /\ Len(reqs) < MaxReqs
    /\ Len(sensors) < MaxSensors
    /\ LET r == Request("POST", Absent, body)
       IN  IF body.temperature = Undefined \/ body.humidity = Undefined
           THEN /\ reqs' = Append(reqs, Respond(r, 400))
                /\ out' = [to |-> Len(reqs) + 1, status |-> 400, view |-> NoView]
           ELSE IF db = DbUnset
           THEN /\ reqs' = Append(reqs, Caught(r, "db"))
                /\ out' = [to |-> Len(reqs) + 1, status |-> 500, view |-> NoView]
           ELSE /\ reqs' = Append(reqs,
                        [r EXCEPT !.pc = "insert", !.inserts = @ + 1,
                                  !.doc = [timestamp |-> <<now>>,
                                           temperature |-> ToNumber(body.temperature),
                                           humidity |-> ToNumber(body.humidity)]])
                /\ out' = NoResponse
    /\ UNCHANGED <<uri, proc, db, connectCalls, clientConnects, records, sensors, now>>

\* insertOne without await: 201 is sent whether or not the insert succeeds.
PostInsertSettledNoAwait(i, ok) ==
    /\ i \in DOMAIN reqs
    /\ reqs[i].pc = "insert"
    /\ sensors' = IF ok THEN Append(sensors, reqs[i].doc) ELSE sensors
    /\ reqs' = [reqs EXCEPT ![i] = Respond(@, 201)]
    /\ out' = [to |-> i, status |-> 201, view |-> NoView]
    /\ UNCHANGED <<uri, proc, db, connectCalls, clientConnects, records, now>>

\* replaceOne({}, doc, { upsert: true }): the new reading replaces the stored one.
PostInsertSettledReplacing(i, ok) ==
    /\ i \in DOMAIN reqs
    /\ reqs[i].pc = "insert"
    /\ IF ok
       THEN /\ sensors' = <<reqs[i].doc>>
            /\ reqs' = [reqs EXCEPT ![i] = Respond(@, 201)]
            /\ out' = [to |-> i, status |-> 201, view |-> NoView]
       ELSE /\ reqs' = [reqs EXCEPT ![i] = Caught(@, "insert")]
            /\ out' = [to |-> i, status |-> 500, view |-> NoView]
            /\ UNCHANGED sensors
    /\ UNCHANGED <<uri, proc, db, connectCalls, clientConnects, records, now>>

\* insertOne settles: the document is stored and 201 sent, or catch answers.
PostInsertSettled(i, ok) ==
    /\ i \in DOMAIN reqs
    /\ reqs[i].pc = "insert"
    /\ IF ok
       THEN /\ sensors' = Append(sensors, reqs[i].doc)
            /\ reqs' = [reqs EXCEPT ![i] = Respond(@, 201)]
            /\ out' = [to |-> i, status |-> 201, view |-> NoView]
       ELSE /\ reqs' = [reqs EXCEPT ![i] = Caught(@, "insert")]
            /\ out' = [to |-> i, status |-> 500, view |-> NoView]
            /\ UNCHANGED sensors
    /\ UNCHANGED <<uri, proc, db, connectCalls, clientConnects, records, now>>

----------------------------------------------------------------------------
(* Specifications *)

TemperatureValues == {Undefined, Null, Num(25), Str(<<"2", "5">>), Str(<<"a">>)}
HumidityValues == {Undefined, Null, Num(60)}
Bodies == [temperature : TemperatureValues, humidity : HumidityValues]

\* The whole server, started with any MONGO_URI on an empty "sensors"
\* collection and a "records" collection of one document.
Init ==
    /\ uri \in Uris
    /\ proc = "start"
    /\ db = DbUnset
    /\ connectCalls = 0
    /\ clientConnects = 0
    /\ records = {[city |-> <<"a">>, region |-> <<"B">>, timestamp |-> <<1>>]}
    /\ sensors = <<>>
    /\ now = 1
    /\ reqs = <<>>
    /\ out = NoResponse

Next ==
    \/ LoadModule
    \/ ConnectDB
    \/ \E ok \in BOOLEAN : ConnectSettled(ok)
    \/ Listen
    \/ Tick
    \/ GetStart(Absent)
    \/ \E i \in 1..MaxReqs, ok \in BOOLEAN : GetAggregateSettled(i, ok)
    \/ \E i \in 1..MaxReqs, ok \in BOOLEAN : GetFindSettled(i, ok)
    \/ \E body \in Bodies : PostStart(body)
    \/ \E i \in 1..MaxReqs, ok \in BOOLEAN : PostInsertSettled(i, ok)

Spec == Init /\ [][Next]_vars

\* The dashboard of a running server, over any small "records" collection.
Listening ==
    /\ uri = ValidUri
    /\ proc = "listening"
    /\ db = DbHandle
    /\ connectCalls = 1
    /\ clientConnects = 1
    /\ now = MaxTime
    /\ reqs = <<>>
    /\ out = NoResponse

StoredTimestamps == {<<1>>, <<2>>}

InitDash ==
    /\ Listening
    /\ records \in {R \in SUBSET WeatherRecords : Cardinality(R) <= MaxRecords}
    /\ sensors = <<[timestamp |-> <<1>>, temperature |-> Num(25), humidity |-> Num(60)]>>

NextDash ==
    \/ \E q \in Qs : Len(reqs) < MaxDashReqs /\ GetStart(q)
    \/ \E i \in 1..MaxReqs, ok \in BOOLEAN : GetAggregateSettled(i, ok)
    \/ \E i \in 1..MaxReqs, ok \in BOOLEAN : GetFindSettled(i, ok)

SpecDash == InitDash /\ [][NextDash]_vars

\* The sensor list of a running server whose "sensors" collection holds the
\* readings of earlier runs (told apart by their temperatures, stored in any
\* order of their timestamps), while further readings arrive.
InitSensors ==
    /\ Listening
    /\ records = {}
    /\ \E n \in 0..MaxSensors : \E ts \in [1..n -> StoredTimestamps] :
          sensors = [k \in 1..n |->
                        [timestamp |-> ts[k], temperature |-> Num(k), humidity |-> Num(60)]]

Dashboards == {i \in DOMAIN reqs : reqs[i].kind = "GET"}

\* Dashboard requests come one after the other here, each of them while
\* readings are being stored.
NextSensors ==
    \/ /\ Cardinality(Dashboards) < MaxDashReqs
       /\ \A i \in Dashboards : reqs[i].pc = "done"
       /\ GetStart(Absent)
    \/ \E i \in 1..MaxReqs, ok \in BOOLEAN : GetAggregateSettled(i, ok)
    \/ \E i \in 1..MaxReqs, ok \in BOOLEAN : GetFindSettled(i, ok)
    \/ PostStart([temperature |-> Num(25), humidity |-> Num(60)])
    \/ \E i \in 1..MaxReqs, ok \in BOOLEAN : PostInsertSettled(i, ok)

SpecSensors == InitSensors /\ [][NextSensors]_vars

----------------------------------------------------------------------------
(* Properties *)

Posts == {i \in DOMAIN reqs : reqs[i].kind = "POST"}

NotPresent(v) == v = Undefined \/ v = Null

Range(f) == {f[k] : k \in DOMAIN f}

CountIn(f, x) == Cardinality({k \in DOMAIN f : f[k] = x})

\* C1: a POST /api/sensor whose temperature or humidity is not present
\* (undefined or null) is answered 400 and writes no reading: the handler
\* ends with status 400 without ever having called insertOne.
C1_MissingFieldRejected ==
    \A i \in Posts :
        (reqs[i].pc = "done"
            /\ (NotPresent(reqs[i].body.temperature) \/ NotPresent(reqs[i].body.humidity)))
        => (reqs[i].status = 400 /\ reqs[i].inserts = 0)

\* The numeric coercion the claim C2 expects of each submitted value.
NumberOf(v) ==
    CASE v = Num(25) -> Num(25)
      [] v = Num(60) -> Num(60)
      [] v = Str(<<"2", "5">>) -> Num(25)
      [] v = Str(<<"a">>) -> NaN
      [] v = Null -> Num(0)

\* C2: a POST whose fields are both present is given a document holding the
\* numeric coercion of the submitted values (NaN for a string that is no
\* number) and the server's time at the request; when its insert succeeds
\* the answer is 201 and "sensors" gains exactly that one reading, whatever
\* the collection already holds.
C2_CreatedReading ==
    [][ /\ \A i \in DOMAIN reqs' :
              (i \notin DOMAIN reqs /\ reqs'[i].pc = "insert")
              => reqs'[i].doc = [timestamp |-> <<now>>,
                                 temperature |-> NumberOf(reqs'[i].body.temperature),
                                 humidity |-> NumberOf(reqs'[i].body.humidity)]
        /\ \A i \in DOMAIN reqs :
              (reqs[i].pc = "insert" /\ reqs'[i].status = 201)
              => /\ sensors' = Append(sensors, reqs[i].doc)
                 /\ out'.status = 201
                 /\ out'.to = i ]_vars

\* Two identical requests with a temperature that is no number were both
\* answered 201 and each added its own NaN reading.
C2_Witness ==
    /\ Len(reqs) = 2
    /\ reqs[1].body = reqs[2].body
    /\ reqs[1].body.temperature = Str(<<"a">>)
    /\ reqs[1].status = 201
    /\ reqs[2].status = 201
    /\ Len(sensors) = 2
    /\ sensors[1] = sensors[2]
    /\ sensors[1].temperature = NaN

\* q occurs in s as a substring, letters compared without case.
ContainsIgnoringCase(s, q) ==
    \E i \in 0..(Len(s) - Len(q)) : \A j \in 1..Len(q) : Lower(q[j]) = Lower(s[i + j])

\* The places <<i, j>> of the provinces of a view.
Entries(view) ==
    UNION {{<<i, j>> : j \in DOMAIN view.regions[i].provinces} : i \in DOMAIN view.regions}

ProvinceAt(view, e) == view.regions[e[1]].provinces[e[2]]

\* C3: with a non-empty q every record of the rendered regions has a city
\* containing q as a case-insensitive substring; with an empty or absent q
\* every city of "records" is shown.
C3_OnlyMatchingCities ==
    out.status = 200 =>
        IF out.view.query # <<>>
        THEN \A e \in Entries(out.view) :
                ContainsIgnoringCase(ProvinceAt(out.view, e).city, out.view.query)
        ELSE \A d \in records : \E e \in Entries(out.view) : ProvinceAt(out.view, e).city = d.city

\* C4: every city with a record passing the filter has exactly one entry in
\* the rendered regions, over all regions, and that entry is a record of the
\* city with the greatest timestamp among the city's records.
C4_LatestPerCity ==
    out.status = 200 =>
        \A c \in {d.city : d \in MatchStage(records, out.view.query)} :
            LET shown == {e \in Entries(out.view) : ProvinceAt(out.view, e).city = c}
            IN  /\ Cardinality(shown) = 1
                /\ \A e \in shown :
                      LET p == ProvinceAt(out.view, e)
                      IN  /\ [city |-> p.city, region |-> p.region, timestamp |-> p.timestamp]
                                \in records
                          /\ p.timestamp # <<>>
                          /\ \A d \in records :
                                (d.city = c /\ d.timestamp # <<>>)
                                => d.timestamp[1] <= p.timestamp[1]

\* A view was rendered of a city that has an older record in one region and
\* a newer one in the other, beside a record of another city.
C4_Witness ==
    /\ out.status = 200
    /\ \E d, e, f \in records :
          /\ d.city = e.city
          /\ d.region # e.region
          /\ d.timestamp = <<1>>
          /\ e.timestamp = <<2>>
          /\ f.city # d.city
          /\ \E x, y \in Entries(out.view) :
                /\ ProvinceAt(out.view, x).city = d.city
                /\ ProvinceAt(out.view, y).city = f.city

\* C5: the rendered regions are in strictly ascending order of their names
\* (so no name comes twice), and the provinces of each region are in
\* ascending order of their cities.
C5_Ordered ==
    out.status = 200 =>
        LET regions == out.view.regions
        IN  /\ \A i \in 1..(Len(regions) - 1) : StrLess(regions[i]._id, regions[i + 1]._id)
            /\ \A i \in DOMAIN regions :
                  \A j \in 1..(Len(regions[i].provinces) - 1) :
                      StrLess(regions[i].provinces[j].city, regions[i].provinces[j + 1].city)

\* A view of two regions, one of them with two provinces.
C5_Witness ==
    /\ out.status = 200
    /\ Len(out.view.regions) = 2
    /\ \E i \in DOMAIN out.view.regions : Len(out.view.regions[i].provinces) = 2

StoredFields(d) ==
    [timestamp |-> d.timestamp, temperature |-> d.temperature, humidity |-> d.humidity]

\* data is the min(5, n) readings of coll with the greatest timestamps, in
\* descending order of timestamp.
RecentFive(data, coll) ==
    LET shown == [k \in DOMAIN data |-> StoredFields(data[k])]
    IN  /\ Len(data) = IF Len(coll) < 5 THEN Len(coll) ELSE 5
        /\ \A k \in 1..(Len(data) - 1) : data[k].timestamp[1] >= data[k + 1].timestamp[1]
        /\ \A x \in Range(shown) : CountIn(shown, x) <= CountIn(coll, x)
        /\ \A c \in Range(coll) :
              CountIn(shown, c) < CountIn(coll, c)
              => \A k \in DOMAIN data : c.timestamp[1] <= data[k].timestamp[1]

\* C6: the sensor list of a rendered dashboard is the min(5, n) most recent
\* of the n readings "sensors" holds when the query is answered, newest first.
C6_RecentFive ==
    [][ \A i \in DOMAIN reqs :
            (reqs[i].pc = "find" /\ reqs'[i].status = 200)
            => /\ out'.to = i
               /\ RecentFive(out'.view.sensorData, sensors) ]_vars

\* A dashboard was rendered with five of more than five readings, the
\* collection holding a reading stored by a concurrent POST and older
\* readings stored after newer ones.
C6_Witness ==
    /\ out.status = 200
    /\ Len(sensors) > 5
    /\ Len(out.view.sensorData) = 5
    /\ \E i \in Posts : reqs[i].status = 201 /\ i > out.to
    /\ \E k \in 1..(Len(sensors) - 1) : sensors[k].timestamp[1] > sensors[k + 1].timestamp[1]
    /\ \E k \in 1..5 : out.view.sensorData[k].timestamp = <<1>>

\* The formatting of the provinces must fail for q: a city passing the
\* filter has no record with a timestamp.
FormatMustFail(q) ==
    \E d \in MatchStage(records, q) :
        \A e \in records : e.city = d.city => e.timestamp = <<>>

\* C7: a GET / in which the aggregation, the formatting or the sensor query
\* failed has received exactly one response, a 500 without a view, and
\* nothing was rendered; a view is rendered only after all steps succeeded,
\* never for records whose timestamp cannot be formatted.
C7_FailureIsOne500 ==
    /\ \A i \in Dashboards :
          /\ reqs[i].responses <= 1
          /\ reqs[i].failed # "none"
             => (reqs[i].pc = "done" /\ reqs[i].status = 500
                    /\ reqs[i].responses = 1 /\ ~reqs[i].rendered)
          /\ reqs[i].rendered
             => (reqs[i].pc = "done" /\ reqs[i].status = 200 /\ reqs[i].failed = "none")
          /\ (~RegexValid(SearchQuery(reqs[i].query)) \/ FormatMustFail(SearchQuery(reqs[i].query)))
             => (reqs[i].pc \in {"aggregate", "done"} /\ ~reqs[i].rendered)
    /\ out.status = 500 => out.view = NoView
    /\ out.status = 200 =>
          /\ reqs[out.to].rendered
          /\ \A e \in Entries(out.view) : ProvinceAt(out.view, e).timestamp # <<>>

\* A dashboard request over a city whose only record has no timestamp was
\* answered 500 by the catch block after the formatting threw.
C7_Witness ==
    \E i \in Dashboards :
        /\ reqs[i].failed = "format"
        /\ reqs[i].status = 500
        /\ out = [to |-> i, status |-> 500, view |-> NoView]

\* The connection strings the driver recognizes.
RecognizedScheme(u) ==
    \/ StartsWith(u, <<"m", "o", "n", "g", "o", "d", "b", ":", "/", "/">>)
    \/ StartsWith(u, <<"m", "o", "n", "g", "o", "d", "b", "+", "s", "r", "v", ":", "/", "/">>)

\* C8: the server listens only with the handle set by a successful connect;
\* with MONGO_URI absent or of no recognized scheme the process gets no
\* further than its exit; no handler ever found the handle unset; and
\* connectDB never opens a second connection.
C8_ListenAfterConnect ==
    /\ proc \in {"connected", "listening"} => db = DbHandle
    /\ (uri = Absent \/ ~RecognizedScheme(uri)) => (proc \in {"start", "exited"} /\ reqs = <<>>)
    /\ proc # "listening" => reqs = <<>>
    /\ \A i \in DOMAIN reqs : reqs[i].failed # "db"
    /\ db # DbUnset => clientConnects = 1
    /\ clientConnects <= 1

\* connectDB was called again on the listening server, which has served a
\* request since.
C8_Witness ==
    /\ proc = "listening"
    /\ connectCalls = 2
    /\ clientConnects = 1
    /\ \E i \in DOMAIN reqs : reqs[i].status = 201

\* C9: a POST whose insert failed is answered 500 once, after a single call
\* of insertOne; it is never answered 201 and adds nothing: the readings
\* stored are as many as the 201 answers.
C9_InsertFailure ==
    /\ \A i \in Posts :
          /\ reqs[i].inserts <= 1
          /\ reqs[i].failed = "insert"
             => (reqs[i].pc = "done" /\ reqs[i].status = 500 /\ reqs[i].responses = 1)
          /\ reqs[i].status = 201 => (reqs[i].failed = "none" /\ reqs[i].inserts = 1)
    /\ Cardinality({i \in Posts : reqs[i].status = 201}) = Len(sensors)

\* One POST was stored and a second, valid one failed in its insert.
C9_Witness ==
    /\ Len(sensors) = 1
    /\ \E i, j \in Posts :
          /\ reqs[i].status = 201
          /\ reqs[j].failed = "insert"
          /\ reqs[j].status = 500

\* The POST requests a step answers with 201.
Answered201 ==
    {i \in DOMAIN reqs' : /\ reqs'[i].kind = "POST"
                          /\ reqs'[i].status = 201
                          /\ (i \notin DOMAIN reqs \/ reqs[i].status # 201)}

\* C10: in every step "records" stays as it is and "sensors" keeps every
\* reading it holds, unchanged and in place; it grows by exactly one reading
\* for each POST the step answers with 201, and not at all in a step of a
\* GET / handler.
C10_AppendOnly ==
    [][ /\ records' = records
        /\ Len(sensors') = Len(sensors) + Cardinality(Answered201)
        /\ SubSeq(sensors', 1, Len(sensors)) = sensors
        /\ (\E i \in DOMAIN reqs' :
               reqs'[i].kind = "GET" /\ (i \notin DOMAIN reqs \/ reqs'[i] # reqs[i]))
           => sensors' = sensors ]_vars

\* Two POSTs in flight together were both stored, the second to arrive
\* first.
C10_Witness ==
    /\ Len(sensors) = 2
    /\ \E i, j \in Posts :
          /\ i < j
          /\ reqs[i].status = 201
          /\ reqs[j].status = 201
          /\ reqs[i].body.temperature = Num(25)
          /\ reqs[j].body.temperature = Str(<<"a">>)
          /\ sensors[1].temperature = NaN
          /\ sensors[2].temperature = Num(25)

====
